---- MODULE Spec2Model ----
(***************************************************************************)
(* Model of the scan engine of folder-size-analyzer (src/src/main.rs):     *)
(* FolderScanner::scan, the background task it spawns on the rayon pool,   *)
(* the parallel units of work (one per immediate subdirectory),            *)
(* calculate_dir_size, and the polling side of FolderScanner::update and   *)
(* render_results_ui.                                                      *)
(***************************************************************************)
EXTENDS Integers, Sequences, FiniteSets, TLC

(* ------------------------------ bounds --------------------------------- *)
\* largest number of entries directly under the scanned root
MaxChildren == 2
\* number of nested path components below a child that the operating
\* system still resolves; read_dir on a longer path fails
MaxDepth == 3

(* --------------------------- filesystem -------------------------------- *)
\* A filesystem node.  kind:
\*   "file"    regular file of `size` bytes
\*   "dir"     readable directory holding `entries`
\*   "noperm"  directory whose listing is denied (read_dir fails)
\*   "ioerr"   directory entry whose enumeration fails (entry is Err)
\*   "nometa"  non-directory whose metadata() fails
\*   "link"    symbolic link to the directory `up` levels above the link
\*             (up = 1: the directory that holds the link); `size` is the
\*             size metadata() reports for the link itself
File(n) == [kind |-> "file", size |-> n, up |-> 0, entries |-> <<>>]
Dir(es) == [kind |-> "dir", size |-> 0, up |-> 0, entries |-> es]
NoPerm == [kind |-> "noperm", size |-> 0, up |-> 0, entries |-> <<>>]
IoErr == [kind |-> "ioerr", size |-> 0, up |-> 0, entries |-> <<>>]
NoMeta == [kind |-> "nometa", size |-> 0, up |-> 0, entries |-> <<>>]
Link(k) == [kind |-> "link", size |-> 10, up |-> k, entries |-> <<>>]

\* Path::is_dir follows symbolic links: a link to a directory is a directory
IsDir(node) == node.kind \in {"dir", "noperm", "link"}

\* std::io::Result<u64>; `links` counts the symbolic links the recursion
\* has descended through
OkSize(n, l) == [ok |-> TRUE, size |-> n, links |-> l]
ErrSize(l) == [ok |-> FALSE, size |-> 0, links |-> l]

\* the single element of a one-element set; binding a recursive result
\* through a set evaluates it once
The(S) == CHOOSE x \in S : TRUE

RECURSIVE calculate_dir_size(_, _, _)
RECURSIVE SumEntries(_, _, _, _, _, _)

\* the for loop of calculate_dir_size from entries[i] on, for the directory
\* that is the last element of `chain` (the directories from the child down
\* to the one being listed), with `total` accumulated so far; any error
\* returns at once (the ? operator)
SumEntries(es, i, chain, depth, total, links) ==
    IF i > Len(es) THEN OkSize(total, links)
    ELSE LET e == es[i]
             hop == IF e.kind = "link" THEN 1 ELSE 0
             sub == IF e.kind = "link"
                    THEN calculate_dir_size(chain[Len(chain) - e.up + 1],
                                            SubSeq(chain, 1, Len(chain) - e.up),
                                            depth + 1)
                    ELSE calculate_dir_size(e, chain, depth + 1)
         IN
         IF e.kind = "ioerr" THEN ErrSize(links)
         ELSE IF IsDir(e)
              THEN The({ IF r.ok
                         THEN SumEntries(es, i + 1, chain, depth,
                                         total + r.size, links + r.links + hop)
                         ELSE ErrSize(links + r.links + hop)
                         : r \in {sub} })
              ELSE IF e.kind = "nometa" THEN ErrSize(links)
                   ELSE SumEntries(es, i + 1, chain, depth,
                                   total + e.size, links)

\* variant: only the files directly inside the child are counted, a nested
\* directory contributes nothing
calculate_dir_size_Shallow(node, above, depth) ==
    IF node.kind # "dir" \/ depth > MaxDepth
    THEN ErrSize(0)
    ELSE IF depth > 1
         THEN OkSize(0, 0)
         ELSE SumEntries(node.entries, 1, Append(above, node), depth, 0, 0)

\* calculate_dir_size(path): `node` is what path resolves to, `above` the
\* directories of the path above it, `depth` the number of components
calculate_dir_size(node, above, depth) ==
    IF node.kind # "dir" \/ depth > MaxDepth
    THEN ErrSize(0)
    ELSE SumEntries(node.entries, 1, Append(above, node), depth, 0, 0)

\* the entries a scanned root may hold: path and node
Library ==
    { [path |-> "big",     node |-> Dir(<<File(5000)>>)],
      [path |-> "nested",  node |-> Dir(<<File(1000), Dir(<<File(2000)>>)>>)],
      [path |-> "small",   node |-> Dir(<<File(1000)>>)],
      [path |-> "twin",    node |-> Dir(<<File(400), File(600)>>)],
      [path |-> "denied",  node |-> NoPerm],
      [path |-> "partial", node |-> Dir(<<File(1000), NoPerm, File(500)>>)],
      [path |-> "broken",  node |-> Dir(<<IoErr, File(2000)>>)],
      [path |-> "stale",   node |-> Dir(<<File(300), NoMeta>>)],
      [path |-> "loop",    node |-> Dir(<<File(700), Link(1)>>)],
      [path |-> "readme",  node |-> File(4000)] }

\* what the path typed into the directory box resolves to
InputKinds == {"dir", "unlistable", "missing", "file"}

\* elapsed seconds a scan may measure
Elapsed == {1, 2}

(* ------------------------------ state ---------------------------------- *)
VARIABLES
    root,             \* entries of the directory on disk, in enumeration order
    target_dir_input, \* FolderScanner.target_dir_input (what it resolves to)
    target_dir,       \* FolderScanner.target_dir
    scanning,         \* FolderScanner.scanning (UI side)
    scan_time,        \* FolderScanner.scan_time
    error,            \* FolderScanner.error
    results,          \* contents of the Arc<Mutex<Vec<FolderInfo>>>
    results_lock,     \* holder of the results mutex: "free" or "task"
    progress,         \* contents of the Arc<Mutex<ScanProgress>>
    scan_time_ptr,    \* <<>> for None, <<t>> for Some(Arc(Mutex(t)))
    scanning_ptr,     \* <<>> for None, <<b>> for Some(Arc(Mutex(b)))
    ui_pc,            \* position of the UI thread inside update()
    task_pc,          \* position of the closure given to rayon::spawn
    folders,          \* the closure's `folders`
    unit_pc,          \* per folder: position of the par_iter closure
    sizes,            \* per folder: the closure's Result<FolderInfo, String>
    successful,       \* the closure's `successful`
    num_folders,      \* FolderScanner.num_folders
    progress_lock,    \* holder of the progress mutex: 0 when free, else the unit
    last_entries,     \* history: <<>> or <<the entries the last completed
                      \* scan of the directory published>>
    scanning_lock     \* holder of the scanning-flag mutex: "free" or "ui"

vars == <<root, target_dir_input, target_dir, scanning, scan_time, error,
          results, results_lock, progress, scan_time_ptr, scanning_ptr,
          ui_pc, task_pc, folders, unit_pc, sizes, successful,
          num_folders, progress_lock, last_entries, scanning_lock>>

ui_vars == <<target_dir_input, target_dir, scanning, scan_time, error,
             scan_time_ptr, scanning_ptr>>
task_vars == <<task_pc, folders, unit_pc, sizes, successful>>
aux_vars == <<num_folders, progress_lock, last_entries, scanning_lock>>

\* the values the "Number of folders to show" box is set to
NumFoldersChoices == {1, 10}

FolderInfo(p, s) == [path |-> p, size |-> s]
ScanProgress(c, t, p) == [current |-> c, total |-> t, current_path |-> p]

Range(s) == { s[j] : j \in 1..Len(s) }

\* injective sequences over S of length at most n
RECURSIVE InjSeqs(_, _)
InjSeqs(S, n) ==
    IF n = 0 THEN {<<>>}
    ELSE LET shorter == InjSeqs(S, n - 1) IN
         shorter \cup
         UNION { { Append(s, x) : x \in S \ Range(s) } :
                 s \in { t \in shorter : Len(t) = n - 1 } }

\* the node a path under the root names
NodeOf(p) == (CHOOSE e \in Range(root) : e.path = p).node

\* Result<FolderInfo, String> of a unit of work that has not returned yet
Pending == ErrSize(0)

\* the state after FolderScanner::default(), for a root drawn from `lib`
InitFrom(lib) ==
    /\ root \in InjSeqs(lib, MaxChildren)
    /\ target_dir_input = "dir"
    /\ target_dir = "dir"
    /\ scanning = FALSE
    /\ scan_time = 0
    /\ error = "None"
    /\ results = <<>>
    /\ results_lock = "free"
    /\ progress = ScanProgress(0, 0, "")
    /\ scan_time_ptr = <<>>
    /\ scanning_ptr = <<>>
    /\ ui_pc = "input"
    /\ task_pc = "idle"
    /\ folders = <<>>
    /\ unit_pc = <<>>
    /\ sizes = <<>>
    /\ successful = <<>>
    /\ num_folders = 10
    /\ progress_lock = 0
    /\ last_entries = <<>>
    /\ scanning_lock = "free"

Init == InitFrom(Library)

\* the roots of the liveness check: two readable children, two children
\* whose accumulation fails, and a plain file
FairLibrary ==
    { e \in Library : e.path \in {"big", "small", "denied", "loop", "readme"} }

FairInit == InitFrom(FairLibrary)

(* --------------------------- pure helpers ------------------------------ *)
\* variant: the key is the size itself, so the order is ascending
RECURSIVE sort_by_key_Ascending(_)
sort_by_key_Ascending(s) ==
    IF s = <<>> THEN <<>>
    ELSE LET sorted == sort_by_key_Ascending(SubSeq(s, 1, Len(s) - 1))
             x == s[Len(s)]
             k == Cardinality({ j \in 1..Len(sorted) : sorted[j].size <= x.size })
         IN  SubSeq(sorted, 1, k) \o <<x>> \o SubSeq(sorted, k + 1, Len(sorted))

\* variant: the list is published in collection order, unsorted
sort_by_key_Missing(s) == s

\* variant: x goes in front of the elements of its own size, so equal sizes
\* come out in reverse order
InsertBySize_BeforeEqual(sorted, x) ==
    LET k == Cardinality({ j \in 1..Len(sorted) : sorted[j].size > x.size })
    IN  SubSeq(sorted, 1, k) \o <<x>> \o SubSeq(sorted, k + 1, Len(sorted))

\* slice::sort_by_key(|info| Reverse(info.size)) is a stable sort: x goes
\* behind every element whose size is at least its own
InsertBySize(sorted, x) ==
    LET k == Cardinality({ j \in 1..Len(sorted) : sorted[j].size >= x.size })
    IN  SubSeq(sorted, 1, k) \o <<x>> \o SubSeq(sorted, k + 1, Len(sorted))

RECURSIVE sort_by_key(_)
sort_by_key(s) ==
    IF s = <<>> THEN <<>>
    ELSE InsertBySize(sort_by_key(SubSeq(s, 1, Len(s) - 1)), s[Len(s)])

\* variant: collecting into Result<Vec<_>, _>, one failure drops every entry
filter_map_ok_AllOrNothing(paths, rs) ==
    IF \E j \in 1..Len(rs) : ~rs[j].ok
    THEN <<>>
    ELSE [j \in 1..Len(rs) |-> FolderInfo(paths[j], rs[j].size)]

\* sizes.into_iter().filter_map(Result::ok).collect()
RECURSIVE filter_map_ok(_, _)
filter_map_ok(paths, rs) ==
    IF rs = <<>> THEN <<>>
    ELSE LET rest == filter_map_ok(Tail(paths), Tail(rs)) IN
         IF Head(rs).ok
         THEN <<FolderInfo(Head(paths), Head(rs).size)>> \o rest
         ELSE rest

\* dirs.filter_map(ok).filter(file_type().is_dir()).map(path).collect();
\* DirEntry::file_type does not follow symbolic links
RECURSIVE list_folders(_)
list_folders(es) ==
    IF es = <<>> THEN <<>>
    ELSE IF Head(es).node.kind \in {"dir", "noperm"}
         THEN <<Head(es).path>> \o list_folders(Tail(es))
         ELSE list_folders(Tail(es))

(* ---------------------- FolderScanner::scan ---------------------------- *)
\* variant: self.scanning is set before the directory is validated
scan_FlagFirst(kind) ==
    IF kind \notin {"dir", "unlistable"}
    THEN /\ error' = "Invalid directory"
         /\ scanning' = TRUE
         /\ UNCHANGED <<target_dir, results, results_lock, progress,
                        scan_time_ptr, scanning_ptr, task_vars, last_entries>>
    ELSE /\ results_lock = "free"
         /\ progress_lock = 0
         /\ last_entries' = IF scanning_ptr = <<FALSE>> /\ target_dir = "dir"
                            THEN <<results>>
                            ELSE last_entries
         /\ error' = "None"
         /\ target_dir' = kind
         /\ scanning' = TRUE
         /\ progress' = ScanProgress(0, 0, "")
         /\ results' = <<>>
         /\ scan_time_ptr' = <<0>>
         /\ scanning_ptr' = <<TRUE>>
         /\ task_pc' = "read_dir"
         /\ folders' = <<>>
         /\ unit_pc' = <<>>
         /\ sizes' = <<>>
         /\ successful' = <<>>
         /\ UNCHANGED results_lock

\* variant: the previous results are not cleared before the task is spawned
scan_NoClear(kind) ==
    IF kind \notin {"dir", "unlistable"}
    THEN /\ error' = "Invalid directory"
         /\ UNCHANGED <<target_dir, scanning, results, results_lock, progress,
                        scan_time_ptr, scanning_ptr, task_vars, last_entries>>
    ELSE /\ results_lock = "free"
         /\ progress_lock = 0
         /\ last_entries' = IF scanning_ptr = <<FALSE>> /\ target_dir = "dir"
                            THEN <<results>>
                            ELSE last_entries
         /\ error' = "None"
         /\ target_dir' = kind
         /\ scanning' = TRUE
         /\ progress' = ScanProgress(0, 0, "")
         /\ scan_time_ptr' = <<0>>
         /\ scanning_ptr' = <<TRUE>>
         /\ task_pc' = "read_dir"
         /\ folders' = <<>>
         /\ unit_pc' = <<>>
         /\ sizes' = <<>>
         /\ successful' = <<>>
         /\ UNCHANGED <<results, results_lock>>

\* scan() on the UI thread, up to and including rayon::spawn and the two
\* pointer stores; `kind` is what target_dir_input resolves to.  Returns
\* Err (recorded by the caller in self.error) for an invalid directory.
scan(kind) ==
    IF kind \notin {"dir", "unlistable"}
    THEN /\ error' = "Invalid directory"
         /\ UNCHANGED <<target_dir, scanning, results, results_lock, progress,
                        scan_time_ptr, scanning_ptr, task_vars, last_entries>>
    ELSE /\ results_lock = "free"
         /\ progress_lock = 0
         /\ last_entries' = IF scanning_ptr = <<FALSE>> /\ target_dir = "dir"
                            THEN <<results>>
                            ELSE last_entries
         /\ error' = "None"
         /\ target_dir' = kind
         /\ scanning' = TRUE
         /\ progress' = ScanProgress(0, 0, "")
         /\ results' = <<>>
         /\ scan_time_ptr' = <<0>>
         /\ scanning_ptr' = <<TRUE>>
         /\ task_pc' = "read_dir"
         /\ folders' = <<>>
         /\ unit_pc' = <<>>
         /\ sizes' = <<>>
         /\ successful' = <<>>
         /\ UNCHANGED results_lock

(* ------------------ the closure given to rayon::spawn ------------------ *)
\* variant: the Err arm returns without clearing the scanning flag
ReadDir_NoSignal ==
    /\ task_pc = "read_dir"
    /\ IF target_dir = "unlistable"
       THEN /\ task_pc' = "idle"
            /\ UNCHANGED <<folders, unit_pc, sizes>>
       ELSE /\ folders' = list_folders(root)
            /\ unit_pc' = [j \in 1..Len(list_folders(root)) |-> "ready"]
            /\ sizes' = [j \in 1..Len(list_folders(root)) |-> Pending]
            /\ task_pc' = "set_total"
    /\ UNCHANGED <<root, aux_vars, target_dir_input, target_dir, scanning, scan_time,
                   error, results, results_lock, progress, scan_time_ptr,
                   scanning_ptr, ui_pc, successful>>

\* fs::read_dir(&target_dir) and the collection of `folders`; on Err the
\* closure clears the scanning flag and returns
ReadDir ==
    /\ task_pc = "read_dir"
    /\ IF target_dir = "unlistable"
       THEN /\ scanning_lock = "free"
            /\ scanning_ptr' = <<FALSE>>
            /\ task_pc' = "idle"
            /\ UNCHANGED <<folders, unit_pc, sizes>>
       ELSE /\ folders' = list_folders(root)
            /\ unit_pc' = [j \in 1..Len(list_folders(root)) |-> "ready"]
            /\ sizes' = [j \in 1..Len(list_folders(root)) |-> Pending]
            /\ task_pc' = "set_total"
            /\ UNCHANGED scanning_ptr
    /\ UNCHANGED <<root, aux_vars, target_dir_input, target_dir, scanning, scan_time,
                   error, results, results_lock, progress, scan_time_ptr,
                   ui_pc, successful>>

\* variant: the total is taken before the non-directories are filtered out
SetTotal_AllEntries ==
    /\ task_pc = "set_total"
    /\ progress_lock = 0
    /\ progress' = [progress EXCEPT !.total = Len(root)]
    /\ task_pc' = "par"
    /\ UNCHANGED <<root, aux_vars, ui_vars, results, results_lock, ui_pc,
                   folders, unit_pc, sizes, successful>>

\* prog.total = folders.len()
SetTotal ==
    /\ task_pc = "set_total"
    /\ progress_lock = 0
    /\ progress' = [progress EXCEPT !.total = Len(folders)]
    /\ task_pc' = "par"
    /\ UNCHANGED <<root, aux_vars, ui_vars, results, results_lock, ui_pc, folders,
                   unit_pc, sizes, successful>>

\* variant: the units are dispatched before the total is stored
MarkStarted_BeforeTotal(i) ==
    /\ task_pc \in {"set_total", "par"}
    /\ i \in 1..Len(folders)
    /\ unit_pc[i] = "ready"
    /\ progress_lock = 0
    /\ progress' = [progress EXCEPT !.current = @ + 1,
                                    !.current_path = folders[i]]
    /\ unit_pc' = [unit_pc EXCEPT ![i] = "started"]
    /\ UNCHANGED <<root, aux_vars, ui_vars, results, results_lock, ui_pc, task_pc,
                   folders, sizes, successful>>

\* variant: the counter is incremented and the path left as it was
MarkStarted_CounterOnly(i) ==
    /\ task_pc = "par"
    /\ i \in 1..Len(folders)
    /\ unit_pc[i] = "ready"
    /\ progress_lock = 0
    /\ progress' = [progress EXCEPT !.current = @ + 1]
    /\ unit_pc' = [unit_pc EXCEPT ![i] = "started"]
    /\ UNCHANGED <<root, aux_vars, ui_vars, results, results_lock, ui_pc,
                   task_pc, folders, sizes, successful>>

\* variant: the progress guard lives to the end of the closure, across
\* calculate_dir_size
MarkStarted_HoldsLock(i) ==
    /\ task_pc = "par"
    /\ i \in 1..Len(folders)
    /\ unit_pc[i] = "ready"
    /\ progress_lock = 0
    /\ progress_lock' = i
    /\ progress' = [progress EXCEPT !.current = @ + 1,
                                    !.current_path = folders[i]]
    /\ unit_pc' = [unit_pc EXCEPT ![i] = "started"]
    /\ UNCHANGED <<root, num_folders, last_entries, scanning_lock, ui_vars, results,
                   results_lock, ui_pc, task_pc, folders, sizes, successful>>

\* a unit of work marks itself started under the progress lock
MarkStarted(i) ==
    /\ task_pc = "par"
    /\ i \in 1..Len(folders)
    /\ unit_pc[i] = "ready"
    /\ progress_lock = 0
    /\ progress' = [progress EXCEPT !.current = @ + 1,
                                    !.current_path = folders[i]]
    /\ unit_pc' = [unit_pc EXCEPT ![i] = "started"]
    /\ UNCHANGED <<root, aux_vars, ui_vars, results, results_lock, ui_pc, task_pc,
                   folders, sizes, successful>>

\* the unit of work accumulates its child and returns Ok(FolderInfo) or Err
Accumulate(i) ==
    /\ task_pc = "par"
    /\ i \in 1..Len(folders)
    /\ unit_pc[i] = "started"
    /\ sizes' = [sizes EXCEPT ![i] = calculate_dir_size(NodeOf(folders[i]), <<>>, 1)]
    /\ unit_pc' = [unit_pc EXCEPT ![i] = "returned"]
    /\ UNCHANGED <<root, aux_vars, ui_vars, results, results_lock, progress, ui_pc,
                   task_pc, folders, successful>>

\* variant: the results are taken without waiting for every unit
Collect_NoJoin ==
    /\ task_pc = "par"
    /\ successful' = sort_by_key(filter_map_ok(folders, sizes))
    /\ \E t \in Elapsed : scan_time_ptr' = <<t>>
    /\ task_pc' = "publish"
    /\ UNCHANGED <<root, aux_vars, target_dir_input, target_dir, scanning, scan_time,
                   error, results, results_lock, progress, scanning_ptr,
                   ui_pc, folders, unit_pc, sizes>>

\* variant: sort_unstable_by_key, which may leave equal sizes in any order
Collect_UnstableSort ==
    /\ task_pc = "par"
    /\ \A j \in 1..Len(folders) : unit_pc[j] = "returned"
    /\ LET f == filter_map_ok(folders, sizes) IN
       \E s \in InjSeqs(Range(f), Len(f)) :
           /\ Len(s) = Len(f)
           /\ \A k \in 1..(Len(s) - 1) : s[k].size >= s[k + 1].size
           /\ successful' = s
    /\ \E t \in Elapsed : scan_time_ptr' = <<t>>
    /\ task_pc' = "publish"
    /\ UNCHANGED <<root, aux_vars, target_dir_input, target_dir, scanning,
                   scan_time, error, results, results_lock, progress,
                   scanning_ptr, ui_pc, folders, unit_pc, sizes>>

\* variant: the join waits for a first unit, which an empty root never has
Collect_NeedsUnit ==
    /\ task_pc = "par"
    /\ Len(folders) > 0
    /\ \A j \in 1..Len(folders) : unit_pc[j] = "returned"
    /\ successful' = sort_by_key(filter_map_ok(folders, sizes))
    /\ \E t \in Elapsed : scan_time_ptr' = <<t>>
    /\ task_pc' = "publish"
    /\ UNCHANGED <<root, aux_vars, target_dir_input, target_dir, scanning,
                   scan_time, error, results, results_lock, progress,
                   scanning_ptr, ui_pc, folders, unit_pc, sizes>>

\* collect() returns once every unit has; then filter, sort and the store
\* of the elapsed time
Collect ==
    /\ task_pc = "par"
    /\ \A j \in 1..Len(folders) : unit_pc[j] = "returned"
    /\ successful' = sort_by_key(filter_map_ok(folders, sizes))
    /\ \E t \in Elapsed : scan_time_ptr' = <<t>>
    /\ task_pc' = "publish"
    /\ UNCHANGED <<root, aux_vars, target_dir_input, target_dir, scanning, scan_time,
                   error, results, results_lock, progress, scanning_ptr,
                   ui_pc, folders, unit_pc, sizes>>

\* variant: the results guard is dropped right after the assignment
Publish_Unlocked ==
    /\ task_pc = "publish"
    /\ results_lock = "free"
    /\ results' = successful
    /\ task_pc' = "mark_complete"
    /\ UNCHANGED <<root, aux_vars, ui_vars, results_lock, progress, ui_pc, folders,
                   unit_pc, sizes, successful>>

\* variant: the list is cut to the number of folders to show
Publish_Truncated ==
    /\ task_pc = "publish"
    /\ results_lock = "free"
    /\ results_lock' = "task"
    /\ results' = SubSeq(successful, 1,
                         IF num_folders < Len(successful)
                         THEN num_folders ELSE Len(successful))
    /\ task_pc' = "mark_complete"
    /\ UNCHANGED <<root, aux_vars, ui_vars, progress, ui_pc, folders,
                   unit_pc, sizes, successful>>

\* let mut results_lock = results.lock().unwrap(); *results_lock = successful
Publish ==
    /\ task_pc = "publish"
    /\ results_lock = "free"
    /\ results_lock' = "task"
    /\ results' = successful
    /\ task_pc' = "mark_complete"
    /\ UNCHANGED <<root, aux_vars, ui_vars, progress, ui_pc, folders, unit_pc, sizes,
                   successful>>

\* *scanning_clone.lock().unwrap() = false, the results guard still held
MarkComplete ==
    /\ task_pc = "mark_complete"
    /\ scanning_lock = "free"
    /\ scanning_ptr' = <<FALSE>>
    /\ task_pc' = "exit"
    /\ UNCHANGED <<root, aux_vars, target_dir_input, target_dir, scanning, scan_time,
                   error, results, results_lock, progress, scan_time_ptr,
                   ui_pc, folders, unit_pc, sizes, successful>>

\* end of the closure: the results guard is dropped
Exit ==
    /\ task_pc = "exit"
    /\ results_lock' = "free"
    /\ task_pc' = "idle"
    /\ UNCHANGED <<root, aux_vars, ui_vars, results, progress, ui_pc, folders, unit_pc,
                   sizes, successful>>

(* ----------------------- FolderScanner::update ------------------------- *)
\* variant: the Scan button is enabled whatever self.scanning is
ClickScan_AlwaysEnabled ==
    /\ ui_pc = "input"
    /\ \E kind \in InputKinds :
          /\ target_dir_input' = kind
          /\ scan(kind)
    /\ ui_pc' = "progress"
    /\ UNCHANGED <<root, num_folders, progress_lock, scanning_lock, scan_time>>

\* the Scan button, enabled while !self.scanning, is clicked
ClickScan ==
    /\ ui_pc = "input"
    /\ ~scanning
    /\ \E kind \in InputKinds :
          /\ target_dir_input' = kind
          /\ scan(kind)
    /\ ui_pc' = "progress"
    /\ UNCHANGED <<root, num_folders, progress_lock, scanning_lock, scan_time>>

\* a frame in which the Scan button is not clicked
NoClick ==
    /\ ui_pc = "input"
    /\ ui_pc' = "progress"
    /\ UNCHANGED <<root, aux_vars, ui_vars, results, results_lock, progress, task_vars>>

\* the "Number of folders to show" box is left alone or dragged; then, if
\* self.scanning: lock the progress, draw the bar or the spinner
ShowProgress ==
    /\ ui_pc = "progress"
    /\ scanning => progress_lock = 0
    /\ \E n \in NumFoldersChoices : num_folders' = n
    /\ ui_pc' = "render"
    /\ UNCHANGED <<root, progress_lock, last_entries, scanning_lock, ui_vars, results,
                   results_lock, progress, task_vars>>

\* variant: the results are read while the guard of the scanning flag is
\* held: the flag mutex is locked first, then the results mutex
render_results_ui_UnderFlagLock ==
    /\ ui_pc = "render"
    /\ \/ /\ scanning_lock = "free"
          /\ scanning_lock' = "ui"
          /\ UNCHANGED ui_pc
       \/ /\ scanning_lock = "ui"
          /\ results_lock = "free"
          /\ scanning_lock' = "free"
          /\ ui_pc' = "check"
    /\ UNCHANGED <<root, num_folders, progress_lock, last_entries, ui_vars,
                   results, results_lock, progress, task_vars>>

\* render_results_ui: self.results.lock().unwrap().clone()
render_results_ui ==
    /\ ui_pc = "render"
    /\ results_lock = "free"
    /\ ui_pc' = "check"
    /\ UNCHANGED <<root, aux_vars, ui_vars, results, results_lock, progress, task_vars>>

\* the completion check at the end of update()
CheckCompletion ==
    /\ ui_pc = "check"
    /\ scanning => scanning_lock = "free"
    /\ IF scanning /\ scanning_ptr = <<FALSE>>
       THEN /\ scanning' = FALSE
            /\ scan_time' = scan_time_ptr[1]
       ELSE UNCHANGED <<scanning, scan_time>>
    /\ ui_pc' = "input"
    /\ UNCHANGED <<root, aux_vars, target_dir_input, target_dir, error, results,
                   results_lock, progress, scan_time_ptr, scanning_ptr,
                   task_vars>>

Task == ReadDir \/ SetTotal \/ Collect \/ Publish \/ MarkComplete \/ Exit
Units == \E i \in 1..MaxChildren : MarkStarted(i) \/ Accumulate(i)
Frame == NoClick \/ ShowProgress \/ render_results_ui \/ CheckCompletion

Next == ClickScan \/ Frame \/ Task \/ Units

Spec == Init /\ [][Next]_vars

\* the pool runs every spawned closure and unit of work, and update() is
\* called again while self.scanning (ctx.request_repaint())
FairSpec ==
    /\ FairInit /\ [][Next]_vars
    /\ WF_vars(Task)
    /\ WF_vars(Units)
    /\ WF_vars(scanning /\ Frame)

TypeOK ==
    /\ scanning \in BOOLEAN
    /\ results_lock \in {"free", "task"}
    /\ scanning_lock \in {"free", "ui"}
    /\ ui_pc \in {"input", "progress", "render", "check"}
    /\ task_pc \in {"idle", "read_dir", "set_total", "par", "publish",
                    "mark_complete", "exit"}
    /\ Len(unit_pc) = Len(folders) /\ Len(sizes) = Len(folders)

(* ============================ properties =============================== *)
\* the done flag of the current scan: the background scanning flag is false
Done == scanning_ptr = <<FALSE>>

\* the unit of work of every folder has returned
AllReturned == \A j \in 1..Len(folders) : unit_pc[j] = "returned"

\* C1: whenever the done flag is true, every dispatched unit of work has
\* returned and the shared result list holds exactly one entry for every
\* child whose accumulation succeeded.
C1_DoneImpliesComplete ==
    Done =>
        /\ AllReturned
        /\ \A j \in 1..Len(folders) :
              sizes[j].ok =>
                  FolderInfo(folders[j], sizes[j].size) \in Range(results)
        /\ Len(results) = Cardinality({ j \in 1..Len(folders) : sizes[j].ok })

\* C1 witness: a scan of two readable children is done and both are listed
C1_Witness ==
    /\ Done
    /\ Len(folders) = 2
    /\ Len(results) = 2

\* C2: the step in which the reader takes its copy of the result list never
\* yields a non-empty list while the done flag is still false.
C2_NoResultBeforeDone ==
    [][ (ui_pc = "render" /\ ui_pc' = "check" /\ results # <<>>)
            => scanning_ptr = <<FALSE>> ]_vars

\* C2 witness: the reader is about to read, the list is already populated
\* and the done flag is still false
C2_Witness ==
    /\ ui_pc = "render"
    /\ results # <<>>
    /\ scanning_ptr = <<TRUE>>

\* C3: after every step current <= total, and current does not decrease in
\* any step other than the reset made by scan().
C3_ProgressBounded ==
    [][ /\ progress'.current <= progress'.total
        /\ \/ (task_pc # "read_dir" /\ task_pc' = "read_dir")
           \/ progress'.current >= progress.current ]_vars

\* C3 witness: both units of a two-child scan have marked themselves started
C3_Witness ==
    /\ task_pc = "par"
    /\ progress.total = 2
    /\ progress.current = 2

\* C4: the shared result list is sorted descending by size.
C4_SortedDescending ==
    \A i \in 1..(Len(results) - 1) : results[i].size >= results[i + 1].size

\* C4 witness: a published list of two entries whose larger entry was
\* enumerated second
C4_Witness ==
    /\ Done
    /\ Len(results) = 2
    /\ results[1].size > results[2].size
    /\ folders[1] = results[2].path

\* C5: a click on Scan with a path that is missing or not a directory
\* records the error and changes neither the scanning flag, the progress,
\* the result list, the completion pointers nor the background task.
C5_InvalidRootNoWork ==
    [][ (ui_pc = "input" /\ ui_pc' = "progress"
            /\ target_dir_input' \in {"missing", "file"})
        => /\ error' = "Invalid directory"
           /\ UNCHANGED <<scanning, progress, results, results_lock,
                          scan_time_ptr, scanning_ptr, target_dir,
                          task_vars>> ]_vars

\* C5 witness: a rejected click after a completed scan, whose results and
\* pointers are still in place
C5_Witness ==
    /\ error = "Invalid directory"
    /\ target_dir_input = "missing"
    /\ ui_pc = "progress"
    /\ results # <<>>
    /\ scanning_ptr = <<FALSE>>
    /\ ~scanning

\* the sum of the readable regular files of a link-free subtree, every
\* unreadable entry counting zero
RECURSIVE ReadableSum(_)
RECURSIVE ReadableSumOf(_)
ReadableSumOf(es) ==
    IF es = <<>> THEN 0 ELSE ReadableSum(Head(es)) + ReadableSumOf(Tail(es))
ReadableSum(node) ==
    CASE node.kind = "file" -> node.size
      [] node.kind = "dir" -> ReadableSumOf(node.entries)
      [] OTHER -> 0

RECURSIVE HasLink(_)
HasLink(node) ==
    \/ node.kind = "link"
    \/ \E j \in 1..Len(node.entries) : HasLink(node.entries[j])

\* C6: a unit whose child can itself be opened returns Ok with the sum of
\* the readable entries of the subtree, whatever fails inside it.
C6_EntryFailureSwallowed ==
    \A j \in 1..Len(folders) :
        (unit_pc[j] = "returned" /\ NodeOf(folders[j]).kind = "dir"
            /\ ~HasLink(NodeOf(folders[j])))
        => /\ sizes[j].ok
           /\ sizes[j].size = ReadableSum(NodeOf(folders[j]))

\* C7: once done, a child whose accumulation failed has no entry, and every
\* child whose accumulation succeeded has its entry with its own size.
C7_FailedChildExcluded ==
    Done =>
        \A j \in 1..Len(folders) :
            LET r == calculate_dir_size(NodeOf(folders[j]), <<>>, 1) IN
            IF r.ok
            THEN FolderInfo(folders[j], r.size) \in Range(results)
            ELSE \A k \in 1..Len(results) : results[k].path # folders[j]

\* C7 witness: a done scan of one failed and one successful child
C7_Witness ==
    /\ Done
    /\ Len(folders) = 2
    /\ Len(results) = 1
    /\ \E j \in 1..2 : ~sizes[j].ok

\* C8: under fair scheduling a started scan reaches done, and the UI-side
\* scanning flag then becomes false.
C8_ScanCompletes ==
    /\ (scanning_ptr = <<TRUE>>) ~> (scanning_ptr = <<FALSE>>)
    /\ scanning ~> ~scanning

\* C8 witness: a scan all of whose children failed has completed
C8_Witness ==
    /\ Done
    /\ ~scanning
    /\ Len(folders) = 2
    /\ \A j \in 1..2 : unit_pc[j] = "returned" /\ ~sizes[j].ok
    /\ results = <<>>

\* C9: no unit of work descends through a symbolic link.
C9_LinksNotFollowed ==
    \A j \in 1..Len(folders) :
        unit_pc[j] = "returned" => sizes[j].links = 0

\* the entries of the successful children of the root, as a set
SuccessfulSet ==
    { FolderInfo(e.path, calculate_dir_size(e.node, <<>>, 1).size) :
        e \in { x \in Range(root) :
                  /\ x.node.kind \in {"dir", "noperm"}
                  /\ calculate_dir_size(x.node, <<>>, 1).ok } }

DistinctSizes ==
    \A a, b \in SuccessfulSet : a.size = b.size => a = b

\* the one strictly descending arrangement of a set of entries
Descending(S) ==
    CHOOSE s \in InjSeqs(S, Cardinality(S)) :
        /\ Len(s) = Cardinality(S)
        /\ \A i \in 1..(Len(s) - 1) : s[i].size > s[i + 1].size

\* C10: with distinct child sizes the published entries are a function of
\* the set of children alone, whatever the enumeration order and schedule.
C10_OrderIndependent ==
    (Done /\ target_dir = "dir" /\ DistinctSizes)
        => results = Descending(SuccessfulSet)

\* C10 witness: sizes 3000 and 5000 enumerated in that order are published
\* as [5000, 3000]
C10_Witness ==
    /\ Done
    /\ Len(root) = 2 /\ root[1].path = "nested" /\ root[2].path = "big"
    /\ results = <<FolderInfo("big", 5000), FolderInfo("nested", 3000)>>

\* the step in which scan() hands a new task to the pool
NewScan == scanning_ptr' = <<TRUE>> /\ scanning_ptr # <<TRUE>>

\* the immediate subdirectories of the root on disk
Subdirs == { e \in Range(root) : e.node.kind \in {"dir", "noperm"} }

\* C11: a completed scan of the directory publishes the same entries, in
\* the same order, as the last completed scan of that directory did.
C11_Idempotent ==
    (Done /\ target_dir = "dir" /\ last_entries # <<>>)
        => results = last_entries[1]

\* C11 witness: a second scan of two equal-sized children is done
C11_Witness ==
    /\ Done
    /\ target_dir = "dir"
    /\ last_entries # <<>>
    /\ Len(results) = 2
    /\ results[1].size = results[2].size

\* C12: once a scan of the directory is done, the entries are exactly the
\* subdirectories whose accumulation succeeded, each once, whatever the
\* number of folders to show is.
C12_ExactlySuccessfulSubdirs ==
    (Done /\ target_dir = "dir")
        => /\ Range(results) = SuccessfulSet
           /\ Len(results) = Cardinality(SuccessfulSet)
           /\ \A r \in Range(results) : NodeOf(r.path).kind = "dir"

\* C12 witness: two entries are published while one folder is to be shown
C12_Witness ==
    /\ Done
    /\ num_folders = 1
    /\ Len(results) = 2

\* C13: total changes only in scan()'s reset and in the one store of the
\* number of subdirectories, made while no unit has marked itself started;
\* whenever a unit has started, total is that number.
C13_TotalSetOnce ==
    [][ /\ (progress'.total # progress.total)
            => \/ (NewScan /\ progress'.total = 0)
               \/ /\ task_pc = "set_total" /\ task_pc' = "par"
                  /\ progress'.total = Cardinality(Subdirs)
                  /\ progress.current = 0
                  /\ \A j \in 1..Len(unit_pc) : unit_pc[j] = "ready"
        /\ (\E j \in 1..Len(unit_pc') : unit_pc'[j] # "ready")
            => progress'.total = Cardinality(Subdirs) ]_vars

\* C13 witness: the total of a two-child scan is stored, no unit started
C13_Witness ==
    /\ task_pc = "par"
    /\ progress.total = 2
    /\ progress.current = 0

\* C14: whenever the done flag is true, current equals total.
C14_DoneImpliesAllCounted ==
    Done => progress.current = progress.total

\* C14 witness: a two-child scan is done with the counter at two of two
C14_Witness ==
    /\ Done
    /\ progress.total = 2
    /\ progress.current = 2

\* C15: a scan of a root without subdirectories dispatches no unit, keeps
\* total at 0 and the entries empty, and reaches done.
C15_EmptyRootCompletes ==
    /\ [](  (target_dir = "dir" /\ Subdirs = {})
            => (results = <<>> /\ progress.total = 0 /\ unit_pc = <<>>))
    /\ (scanning_ptr = <<TRUE>> /\ target_dir = "dir" /\ Subdirs = {})
            ~> (Done /\ results = <<>> /\ progress.total = 0)

\* C15 witness: the scan of a root holding only a plain file is done
C15_Witness ==
    /\ Done
    /\ target_dir = "dir"
    /\ Len(root) = 1
    /\ Subdirs = {}
    /\ results = <<>>
    /\ ~scanning

\* C16: the done flag is flipped only by the store that follows the one
\* assignment of the result list, and once it is true the result list, the
\* elapsed time, the progress and the flag stay as they are until scan()
\* starts a new scan.
C16_PublishedOnceThenFrozen ==
    [][ /\ (scanning_ptr' = <<FALSE>> /\ scanning_ptr = <<TRUE>>)
            => (task_pc = "mark_complete" /\ results_lock = "task")
        /\ (Done /\ ~NewScan)
            => UNCHANGED <<results, scan_time_ptr, progress, scanning_ptr>>
      ]_vars

\* C17: scan() starts a task only while self.scanning is false and no task
\* is live, and a live task always has self.scanning and its flag true.
C17_OneScanInFlight ==
    [][ /\ (task_pc' = "read_dir" /\ task_pc # "read_dir")
            => (~scanning /\ task_pc = "idle")
        /\ (task_pc' \notin {"idle", "exit"})
            => (scanning' /\ scanning_ptr' = <<TRUE>>) ]_vars

\* C17 witness: a second scan is in flight after a first one completed
C17_Witness ==
    /\ task_pc = "par"
    /\ last_entries # <<>>
    /\ scanning

\* the units that have marked themselves started
StartedUnits == { j \in 1..Len(unit_pc) : unit_pc[j] # "ready" }

\* C18: after every step current is the number of units that have marked
\* themselves started, current_path is empty exactly when current is 0,
\* and a step that increments current stores the path of the unit that
\* made it.
C18_ProgressConsistent ==
    [][ /\ progress'.current = Cardinality(StartedUnits')
        /\ (progress'.current = 0) <=> (progress'.current_path = "")
        /\ (progress'.current # progress.current /\ ~NewScan)
            => \E i \in 1..Len(folders) :
                  /\ unit_pc[i] = "ready" /\ unit_pc'[i] = "started"
                  /\ progress'.current_path = folders[i]
        /\ (progress'.current = progress.current)
            => progress'.current_path = progress.current_path ]_vars

\* C18 witness: the unit enumerated second has started first
C18_Witness ==
    /\ Len(folders) = 2
    /\ progress.current = 1
    /\ progress.current_path = folders[2]

IndexOf(p) == CHOOSE j \in 1..Len(root) : root[j].path = p

\* C20: entries of equal size stand in the order of their enumeration.
C20_StableTies ==
    \A a, b \in 1..Len(results) :
        (a < b /\ results[a].size = results[b].size)
            => IndexOf(results[a].path) < IndexOf(results[b].path)

\* C20 witness: two children of 1000 bytes, "twin" enumerated first
C20_Witness ==
    /\ Done
    /\ Len(results) = 2
    /\ results[1].size = results[2].size
    /\ results[1].path = "twin"

\* a subtree every directory of which can be listed and every entry of which
\* is a regular file or such a directory: nothing unreadable, no link
RECURSIVE FullyReadable(_)
FullyReadable(node) ==
    \/ node.kind = "file"
    \/ /\ node.kind = "dir"
       /\ \A j \in 1..Len(node.entries) : FullyReadable(node.entries[j])

\* C21: for a child whose subtree is fully readable and free of links, the
\* unit returns Ok with exactly the sum of the sizes of all regular files in
\* the subtree, and once done the child is listed with that size.
C21_ExactFileSum ==
    /\ \A j \in 1..Len(folders) :
          (unit_pc[j] = "returned" /\ FullyReadable(NodeOf(folders[j])))
          => /\ sizes[j].ok
             /\ sizes[j].size = ReadableSum(NodeOf(folders[j]))
    /\ (Done /\ target_dir = "dir")
          => \A j \in 1..Len(root) :
                (root[j].node.kind = "dir" /\ FullyReadable(root[j].node))
                => FolderInfo(root[j].path, ReadableSum(root[j].node))
                       \in Range(results)

\* C21 witness: a child with one file of 1000 bytes and a child with a
\* file of 1000 bytes beside a directory holding 2000 bytes have been sized
C21_Witness ==
    /\ Done
    /\ results = <<FolderInfo("nested", 3000), FolderInfo("small", 1000)>>

\* the list the pipeline of the task computes from the root
FinalEntries ==
    LET fs == list_folders(root) IN
    sort_by_key(filter_map_ok(fs,
        [j \in 1..Len(fs) |-> calculate_dir_size(NodeOf(fs[j]), <<>>, 1)]))

\* C22: the shared result list is empty from scan() until the task assigns
\* the finished list, and at every moment it is either empty or the complete
\* final list: no partial list is ever visible.
C22_EmptyOrFinal ==
    /\ task_pc \in {"read_dir", "set_total", "par", "publish"}
            => results = <<>>
    /\ results \in {<<>>, FinalEntries}

\* C22 witness: a second scan is under way, the first one had published a
\* non-empty list, and the shared list is empty again
C22_Witness ==
    /\ task_pc = "par"
    /\ last_entries # <<>>
    /\ last_entries[1] # <<>>
    /\ results = <<>>

\* the task has work left and none of its steps can be taken
TaskBlocked == task_pc # "idle" /\ ~ENABLED (Task \/ Units)

\* no step of update() can be taken
UIBlocked == ~ENABLED (ClickScan \/ Frame)

\* C23: the background task and the reader never wait on each other: a
\* reader that cannot proceed is waiting for the result lock alone, while
\* it holds no lock itself, and the holder, the task, is not blocked and
\* can take its next step.
C23_NoDeadlock ==
    UIBlocked => /\ ~TaskBlocked
                 /\ results_lock = "task"
                 /\ scanning_lock = "free"
                 /\ ENABLED Task

\* C23 witness: the reader is at its read of the result list while the task
\* holds the result guard and is about to lock the done flag
C23_Witness ==
    /\ ui_pc = "render"
    /\ results_lock = "task"
    /\ task_pc = "mark_complete"
    /\ UIBlocked

\* C24: a scan whose root passed validation but cannot be listed ends: the
\* done flag is flipped, the result list stays empty, progress stays at
\* 0/0, no unit of work exists, and self.error is not set.
C24_ListingFailureEnds ==
    /\ [](target_dir = "unlistable"
            => /\ results = <<>>
               /\ progress.current = 0 /\ progress.total = 0
               /\ folders = <<>> /\ unit_pc = <<>>)
    /\ []((target_dir = "unlistable" /\ scanning) => error = "None")
    /\ (scanning_ptr = <<TRUE>> /\ target_dir = "unlistable")
            ~> (Done /\ target_dir = "unlistable" /\ results = <<>>
                     /\ progress.total = 0 /\ unit_pc = <<>>)
    /\ (scanning /\ target_dir = "unlistable") ~> ~scanning

\* C24 witness: after a scan that published entries, the scan of a root
\* that cannot be listed has ended and update() has noticed it
C24_Witness ==
    /\ Done
    /\ target_dir = "unlistable"
    /\ ~scanning
    /\ error = "None"
    /\ last_entries # <<>>
    /\ last_entries[1] # <<>>
    /\ results = <<>>

\* C25: whenever the done flag is true or the result list is non-empty, the
\* shared scan time is the elapsed time of the scan, not the 0.0 placeholder,
\* and the time update() copies on completion is that elapsed time.
C25_ElapsedBeforeDone ==
    /\ Done => scan_time_ptr[1] \in Elapsed
    /\ results # <<>> => (scan_time_ptr # <<>> /\ scan_time_ptr[1] \in Elapsed)

====
